---------------------------- MODULE Spec2Model ----------------------------
(***************************************************************************)
(* Pac-Man layout generator (pacman_mapgen): the cell grid with its paired *)
(* wall flags, the doubled-resolution layout, the seeded random stream,    *)
(* position sampling, and the Kruskal, Prim, randomized-DFS and            *)
(* independent-probability carving loops.                                  *)
(*                                                                         *)
(* A Position is a pair <<x, y>>.  A Direction is one of the four names    *)
(* below, in the enumeration order of the Direction enum.  A wall flag is  *)
(* TRUE while the wall stands (Cell._walls), so is_open is its negation.   *)
(***************************************************************************)
EXTENDS Integers, Sequences, FiniteSets, TLC

VARIABLES
    width, height,      \* LayoutGenerator.width / .height, CellGrid.width / .height
    seed,               \* LayoutGenerator.seed
    rand,               \* state of LayoutGenerator.rand (the seeded stream)
    wall_probability,   \* RandomLayoutGenerator.wall_probability, in ProbDen-ths
    method,             \* which generator class is running
    problem_type,       \* argument of LayoutGenerator.generate_layout
    max_food,           \* argument of LayoutGenerator.generate_layout
    pc,                 \* position in the running method
    ret,                \* where the running random_position call returns to
    err,                \* exception raised by the last call ("none" if none)
    grid,               \* CellGrid._grid: cell -> [walls, type]
    layout,             \* Layout._layout: cell -> CellType (<<>> until built)
    walls,              \* kruskal: the shuffled list of (position, direction)
    cell_set,           \* kruskal: position -> set index
    set_cells,          \* kruskal: set index -> set of positions
    pending,            \* prim: the frontier list of (cell, direction)
    fringe,             \* dfs: stack of (position, remaining neighbors)
    visited,            \* prim, dfs: set of visited positions
    rand_pos,           \* random_position: the candidate position
    no_border,          \* random_position: argument
    forbidden,          \* random_position: argument (a list of positions)
    positions,          \* random_positions: the distinct positions so far
    pacman_pos,         \* generate_layout: agent position
    food_pos,           \* generate_layout: list of food positions
    calls,              \* number of grid calls made so far (bounded runs)
    run,                \* 1 for the first generation, 2 for the repeated one
    first_layout,       \* the layout the first generation returned
    last_call,          \* bare grid: the arguments of the last recorded call
    cycle_probability   \* cli: ProgramArgs.cycle_probability, in ProbDen-ths

vars == <<width, height, seed, rand, wall_probability, method, problem_type,
          max_food, pc, ret, err, grid, layout, walls, cell_set, set_cells,
          pending, fringe, visited, rand_pos, no_border, forbidden, positions,
          pacman_pos, food_pos, calls, run, first_layout, last_call,
          cycle_probability>>

---------------------------------------------------------------------------
\* Bounds of the model.

\* Generators are built with width in 3..MaxWidth and height in 3..MaxHeight.
MaxWidth == 5
MaxHeight == 5
\* Seeds of generate_layout(problem_type, max_food) runs are drawn from
\* 0..MaxSeed, seeds of the spanning-tree generators from 0..MaxTreeSeed.
MaxSeed == 11
MaxTreeSeed == 31
\* Bare grids (no generator) have width in 1..GridMaxWidth, height in 1..GridMaxHeight.
GridMaxWidth == 2
GridMaxHeight == 2
\* Number of calls made on a bare grid.
MaxCalls == 3
\* Number of open_wall calls made on a bare grid whose calls are recorded.
MaxWallCalls == 2
\* Probabilities are multiples of 1/ProbDen.
ProbDen == 4

---------------------------------------------------------------------------
\* Loops.  ForRange(Body, s, lo, hi) is the value of s after
\*     for i in lo..hi: s = Body(s, i)
\* Each iteration's result is bound as a value (v \in {...}) before the next
\* iteration uses it, so that it is computed once however often the body
\* reads it, and the iterations are run in blocks to keep the depth of the
\* evaluation small; neither changes the value computed.

RECURSIVE ForBlock(_, _, _, _)
ForBlock(Body(_, _), s, lo, hi) ==
    IF lo > hi
    THEN s
    ELSE CHOOSE r \in {ForBlock(Body, v, lo + 1, hi) : v \in {Body(s, lo)}} : TRUE

RECURSIVE ForRange(_, _, _, _)
ForRange(Body(_, _), s, lo, hi) ==
    IF lo > hi
    THEN s
    ELSE LET mid == IF lo + 15 < hi THEN lo + 15 ELSE hi
         IN  CHOOSE r \in {ForRange(Body, v, mid + 1, hi) :
                               v \in {ForBlock(Body, s, lo, mid)}} : TRUE

---------------------------------------------------------------------------
\* CellType, Position, Direction.

EMPTY == "EMPTY"
WALL == "WALL"
FOOD == "FOOD"
PACMAN == "PACMAN"
CellType == {EMPTY, WALL, FOOD, PACMAN}

Direction == <<"LEFT", "RIGHT", "UP", "DOWN">>
Directions == {Direction[i] : i \in 1..Len(Direction)}

\* The coordinates of a Direction member.
DirVec(d) ==
    CASE d = "LEFT" -> <<-1, 0>>
      [] d = "RIGHT" -> <<1, 0>>
      [] d = "UP" -> <<0, -1>>
      [] d = "DOWN" -> <<0, 1>>

\* Position.__add__
Add(p, q) == <<p[1] + q[1], p[2] + q[2]>>

\* Direction.reverse mutant: the direction is returned as it is.
reverse_same(d) == d

\* Direction.reverse, the _REVERSE_DIRECTIONS table.
reverse(d) ==
    CASE d = "LEFT" -> "RIGHT"
      [] d = "RIGHT" -> "LEFT"
      [] d = "UP" -> "DOWN"
      [] d = "DOWN" -> "UP"

\* Position.left / .right / .up / .down
left(p) == <<p[1] - 1, p[2]>>
right(p) == <<p[1] + 1, p[2]>>
up(p) == <<p[1], p[2] - 1>>
down(p) == <<p[1], p[2] + 1>>

---------------------------------------------------------------------------
\* Cell and CellGrid.

\* The positions of a w x h grid.
Cells(w, h) == (0..(w - 1)) \X (0..(h - 1))

\* Cell.__init__: all four walls standing.
Cell(cell_type) == [walls |-> [d \in Directions |-> TRUE], type |-> cell_type]

\* CellGrid.__init__
CellGrid(w, h, init_type) == [p \in Cells(w, h) |-> Cell(init_type)]

\* Cell.open_wall
Cell_open_wall(cell, d) == [cell EXCEPT !.walls[d] = FALSE]

\* Cell.is_open
is_open(cell, d) == ~cell.walls[d]

\* CellGrid.is_out_of_bounds mutant: row 0 counts as out of bounds.
is_out_of_bounds_row0(p) ==
    \/ p[2] <= 0
    \/ p[2] >= height
    \/ p[1] < 0
    \/ p[1] >= width

\* CellGrid.is_out_of_bounds
is_out_of_bounds(p) ==
    \/ p[2] < 0
    \/ p[2] >= height
    \/ p[1] < 0
    \/ p[1] >= width

\* CellGrid.get_neighbors: the in-bounds (position + direction, direction)
\* pairs, in the enumeration order of Direction.
get_neighbors(p) ==
    LET all_neighbors == [i \in 1..Len(Direction) |->
                              <<Add(p, DirVec(Direction[i])), Direction[i]>>]
    IN  SelectSeq(all_neighbors, LAMBDA nb : ~is_out_of_bounds(nb[1]))

\* CellGrid.open_wall raises IndexError.
open_wall_raises(p, d) ==
    is_out_of_bounds(p) \/ is_out_of_bounds(Add(p, DirVec(d)))

\* CellGrid.open_wall mutant: only the wall on the position's side is opened.
open_wall_one_side(g, p, d) ==
    IF open_wall_raises(p, d)
    THEN g
    ELSE [g EXCEPT ![p] = Cell_open_wall(g[p], d)]

\* CellGrid.open_wall: the grid after the call (unchanged when it raises).
open_wall(g, p, d) ==
    IF open_wall_raises(p, d)
    THEN g
    ELSE LET neighbor == Add(p, DirVec(d))
             g1 == [g EXCEPT ![p] = Cell_open_wall(g[p], d)]
         IN  [g1 EXCEPT ![neighbor] = Cell_open_wall(g1[neighbor], reverse(d))]

\* Layout.__init__
Layout(w, h, init_type) == [p \in Cells(w, h) |-> init_type]

\* The body of to_layout's double loop for the cell at <<x_pos, y_pos>>.
to_layout_cell(g, lay, x_pos, y_pos) ==
    LET cell == g[<<x_pos, y_pos>>]
        layout_p == <<2 * x_pos + 1, 2 * y_pos + 1>>
        l0 == [lay EXCEPT ![layout_p] = cell.type]
        l1 == IF is_open(cell, "LEFT") THEN [l0 EXCEPT ![left(layout_p)] = EMPTY] ELSE l0
        l2 == IF is_open(cell, "RIGHT") THEN [l1 EXCEPT ![right(layout_p)] = EMPTY] ELSE l1
        l3 == IF is_open(cell, "UP") THEN [l2 EXCEPT ![up(layout_p)] = EMPTY] ELSE l2
        l4 == IF is_open(cell, "DOWN") THEN [l3 EXCEPT ![down(layout_p)] = EMPTY] ELSE l3
    IN  l4

\* to_layout's loops: rows in order, cells of a row in order; k numbers
\* the cells from 0 in that order.
to_layout_loop(g, lay) ==
    ForRange(LAMBDA l, k : to_layout_cell(g, l, k % width, k \div width),
             lay, 0, width * height - 1)

\* CellGrid.to_layout mutant: the layout starts out EMPTY instead of WALL.
to_layout_init_empty(g) ==
    to_layout_loop(g, Layout(2 * width + 1, 2 * height + 1, EMPTY))

\* CellGrid.to_layout
to_layout(g) ==
    to_layout_loop(g, Layout(2 * width + 1, 2 * height + 1, WALL))

---------------------------------------------------------------------------
\* The seeded random stream (random.Random).  The library generator is
\* stood in for by a Lehmer generator modulo the prime 1009: a stream state
\* is a number in 1..1008, every draw advances it once, and the stream
\* returns to its seed state after 1008 draws.

\* Random(seed)
Random(s) == ((s * 389 + 97) % 1008) + 1

rand_next(r) == (r * 53) % 1009

\* rand.randint(a, b): the value drawn and the stream after the draw.
randint(r, a, b) ==
    [val |-> a + (rand_next(r) % (b - a + 1)), rand |-> rand_next(r)]

\* rand.random(), as a number of ProbDen-ths in 0..ProbDen-1 (the float
\* lies in [0, 1)), and the stream after the draw.
random(r) == [val |-> rand_next(r) % ProbDen, rand |-> rand_next(r)]

\* rand.shuffle's loop body for the k-th iteration: i runs down from the
\* last index to the second, j = randbelow(i + 1), x[i], x[j] = x[j], x[i]
\* (indices here are 1-based, so j is drawn from 1..i).
shuffle_step(s, k) ==
    LET i == Len(s.x) + 1 - k
        r1 == rand_next(s.rand)
        j == (r1 % i) + 1
    IN  [x |-> [s.x EXCEPT ![i] = s.x[j], ![j] = s.x[i]], rand |-> r1]

\* rand.shuffle mutant: the list is left in its original order.
shuffle_none(x, r) == [x |-> x, rand |-> r]

\* rand.shuffle(x): the shuffled list and the stream after it.
shuffle(x, r) == ForRange(shuffle_step, [x |-> x, rand |-> r], 1, Len(x) - 1)

\* list.pop(): the last element, and the list without it.
Last(x) == x[Len(x)]
Front(x) == SubSeq(x, 1, Len(x) - 1)

\* p in list
InList(p, x) == \E i \in 1..Len(x) : x[i] = p

---------------------------------------------------------------------------
\* LayoutGenerator: problem types, corners, border test, position sampling.

SEARCH == "search"
CORNERS == "corners"
FOOD_PROBLEM == "food"
ProblemType == {FOOD_PROBLEM, SEARCH, CORNERS}

\* The max_food arguments tried for the FOOD problem type; the other
\* problem types do not read max_food and get the command line's default.
MaxFoodValues == {0, 3, 40}
DefaultMaxFood == 10

\* get_corners mutant: the corners of a square grid of side width.
get_corners_square ==
    << <<0, 0>>, <<0, width - 1>>, <<width - 1, 0>>, <<width - 1, width - 1>> >>

\* LayoutGenerator.get_corners
get_corners ==
    << <<0, 0>>, <<0, height - 1>>, <<width - 1, 0>>, <<width - 1, height - 1>> >>

\* LayoutGenerator.is_border
is_border(p) ==
    \/ p[1] = 0
    \/ p[1] = height - 1
    \/ p[2] = 0
    \/ p[2] = width - 1

\* random_position: the first draw, x from 0..width-1 then y from 0..height-1.
random_position_first(r) ==
    LET dx == randint(r, 0, width - 1)
        dy == randint(dx.rand, 0, height - 1)
    IN  [pos |-> <<dx.val, dy.val>>, rand |-> dy.rand]

\* random_position: a draw of the while loop, Position(randint(1, height-2),
\* randint(1, width-2)): the first argument is x_coord, the second y_coord.
random_position_resample(r) ==
    LET dx == randint(r, 1, height - 2)
        dy == randint(dx.rand, 1, width - 2)
    IN  [pos |-> <<dx.val, dy.val>>, rand |-> dy.rand]

\* random_position mutant: the forbidden list is not consulted.
not_ok_border_only(p, nb, forb) == is_border(p) /\ nb

\* random_position: not_ok for candidate p.
not_ok(p, nb, forb) == (is_border(p) /\ nb) \/ InList(p, forb)

\* grid[p] (self._grid[p.y][p.x]) raises IndexError.  Sampled coordinates
\* are never negative, so a negative index never wraps around here.
index_raises(p) == p[2] >= height \/ p[1] >= width

\* positions = [Position(x, y) for x in range(width) for y in range(height)]
all_positions ==
    [k \in 1..(width * height) |-> <<(k - 1) \div height, (k - 1) % height>>]

\* [(position, direction) for position in positions
\*                         for _, direction in grid.get_neighbors(position)]
all_edges ==
    ForRange(LAMBDA acc, k :
                 LET nbs == get_neighbors(all_positions[k])
                 IN  acc \o [i \in 1..Len(nbs) |-> <<all_positions[k], nbs[i][2]>>],
             <<>>, 1, width * height)

\* RandomLayoutGenerator._generate_plain_layout, the loops over the cells
\* (x-major, as itertools.product) and their neighbor directions: the wall
\* is opened when random() < wall_probability; an IndexError raised by
\* open_wall ends the loops (raised).
random_carve(g, r) ==
    LET edges == all_edges
    IN  ForRange(LAMBDA s, i :
                     LET dr == random(s.rand)
                     IN  IF s.raised
                         THEN s
                         ELSE IF dr.val < wall_probability
                         THEN IF open_wall_raises(edges[i][1], edges[i][2])
                              THEN [grid |-> s.grid, rand |-> dr.rand, raised |-> TRUE]
                              ELSE [grid |-> open_wall(s.grid, edges[i][1], edges[i][2]),
                                    rand |-> dr.rand, raised |-> FALSE]
                         ELSE [grid |-> s.grid, rand |-> dr.rand, raised |-> FALSE],
                 [grid |-> g, rand |-> r, raised |-> FALSE], 1, Len(edges))

\* The cells of a w x h layout, rows in order and the cells of a row in order.
row_major(w, h) == [k \in 1..(w * h) |-> <<(k - 1) % w, (k - 1) \div w>>]

\* fill_with_food's "while max_food > 0 and empty_cells", which runs at
\* most len(empty_cells) times: n is the countdown, cells the list left.
fill_loop(lay, n, cells) ==
    ForRange(LAMBDA s, k :
                 IF s.n > 0 /\ s.cells # <<>>
                 THEN [layout |-> [s.layout EXCEPT ![Last(s.cells)] = FOOD],
                       n |-> s.n - 1,
                       cells |-> Front(s.cells)]
                 ELSE s,
             [layout |-> lay, n |-> n, cells |-> cells], 1, Len(cells)).layout

\* Layout.fill_with_food mutant: every cell of the layout is a candidate.
fill_with_food_any_cell(lay, mf, r) ==
    LET w == 2 * width + 1
        h == 2 * height + 1
        sh == shuffle(row_major(w, h), r)
        n == IF mf > 0 THEN mf ELSE w * h
    IN  [layout |-> fill_loop(lay, n, sh.x), rand |-> sh.rand]

\* Layout.fill_with_food: the layout and the stream after the call.
fill_with_food(lay, mf, r) ==
    LET w == 2 * width + 1
        h == 2 * height + 1
        empty_cells == SelectSeq(row_major(w, h), LAMBDA p : lay[p] = EMPTY)
        sh == shuffle(empty_cells, r)
        n == IF mf > 0 THEN mf ELSE Len(empty_cells)
    IN  [layout |-> fill_loop(lay, n, sh.x), rand |-> sh.rand]

---------------------------------------------------------------------------
\* Values of the variables a run does not use (yet).

NoPosition == <<>>

\* The variables of the callers of the grid and of the generators.
caller_vars == <<last_call, cycle_probability>>

\* The value of cycle_probability in a run whose generator is constructed
\* directly: no constructor has such an argument.
NotConfigured == 0 - 1

Idle ==
    /\ walls = <<>>
    /\ cell_set = <<>>
    /\ set_cells = <<>>
    /\ pending = <<>>
    /\ fringe = <<>>
    /\ visited = {}
    /\ rand_pos = NoPosition
    /\ no_border = FALSE
    /\ forbidden = <<>>
    /\ positions = <<>>
    /\ pacman_pos = NoPosition
    /\ food_pos = <<>>
    /\ layout = <<>>
    /\ ret = "none"
    /\ err = "none"
    /\ calls = 0
    /\ run = 1
    /\ first_layout = <<>>
    /\ last_call = <<>>

---------------------------------------------------------------------------
\* A bare CellGrid driven by arbitrary calls: open_wall with any position
\* and direction (in or out of bounds), a cell type assignment, and finally
\* to_layout.

InitGrid ==
    /\ method = "grid"
    /\ width \in 1..GridMaxWidth
    /\ height \in 1..GridMaxHeight
    /\ seed = 0
    /\ rand = 0
    /\ wall_probability = 0
    /\ problem_type = "none"
    /\ max_food = 0
    /\ pc = "grid"
    /\ grid = CellGrid(width, height, EMPTY)
    /\ cycle_probability = NotConfigured
    /\ Idle

\* grid.open_wall(p, d); a raised IndexError is caught by the caller.
GridOpenWall ==
    /\ pc = "grid"
    /\ calls < MaxCalls
    /\ \E p \in ((-1)..width) \X ((-1)..height), d \in Directions :
          /\ grid' = open_wall(grid, p, d)
          /\ err' = IF open_wall_raises(p, d) THEN "IndexError" ELSE "none"
    /\ calls' = calls + 1
    /\ UNCHANGED <<width, height, seed, rand, wall_probability, method,
                   problem_type, max_food, pc, ret, layout, walls, cell_set,
                   set_cells, pending, fringe, visited, rand_pos, no_border,
                   forbidden, positions, pacman_pos, food_pos, run,
                   first_layout, caller_vars>>

\* grid[p].type = CellType.PACMAN, grid[p].type = CellType.FOOD
GridSetType ==
    /\ pc = "grid"
    /\ calls < MaxCalls
    /\ \E p \in Cells(width, height), t \in {PACMAN, FOOD} :
          grid' = [grid EXCEPT ![p].type = t]
    /\ calls' = calls + 1
    /\ UNCHANGED <<width, height, seed, rand, wall_probability, method,
                   problem_type, max_food, pc, ret, err, layout, walls,
                   cell_set, set_cells, pending, fringe, visited, rand_pos,
                   no_border, forbidden, positions, pacman_pos, food_pos, run,
                   first_layout, caller_vars>>

\* grid.to_layout()
GridToLayout ==
    /\ pc = "grid"
    /\ layout' = to_layout(grid)
    /\ pc' = "done"
    /\ UNCHANGED <<width, height, seed, rand, wall_probability, method,
                   problem_type, max_food, ret, err, grid, walls, cell_set,
                   set_cells, pending, fringe, visited, rand_pos, no_border,
                   forbidden, positions, pacman_pos, food_pos, calls, run,
                   first_layout, caller_vars>>

NextGrid == GridOpenWall \/ GridSetType \/ GridToLayout

SpecGrid == InitGrid /\ [][NextGrid]_vars

---------------------------------------------------------------------------
\* A bare CellGrid of any initial cell type on which only open_wall is
\* called, each call's arguments being recorded in last_call.

InitOpenWall ==
    /\ method = "grid"
    /\ width \in 1..GridMaxWidth
    /\ height \in 1..GridMaxHeight
    /\ seed = 0
    /\ rand = 0
    /\ wall_probability = 0
    /\ problem_type = "none"
    /\ max_food = 0
    /\ pc = "grid"
    /\ \E init_type \in CellType : grid = CellGrid(width, height, init_type)
    /\ cycle_probability = NotConfigured
    /\ Idle

\* grid.open_wall(p, d); a raised IndexError is caught by the caller.
OpenWallCall ==
    /\ pc = "grid"
    /\ calls < MaxWallCalls
    /\ \E p \in ((-1)..width) \X ((-1)..height), d \in Directions :
          /\ grid' = open_wall(grid, p, d)
          /\ err' = IF open_wall_raises(p, d) THEN "IndexError" ELSE "none"
          /\ last_call' = <<p, d>>
    /\ calls' = calls + 1
    /\ UNCHANGED <<width, height, seed, rand, wall_probability, method,
                   problem_type, max_food, pc, ret, layout, walls, cell_set,
                   set_cells, pending, fringe, visited, rand_pos, no_border,
                   forbidden, positions, pacman_pos, food_pos, run,
                   first_layout, cycle_probability>>

NextOpenWall == OpenWallCall

SpecOpenWall == InitOpenWall /\ [][NextOpenWall]_vars

---------------------------------------------------------------------------
\* Groups of variables, for UNCHANGED.

params == <<width, height, seed, wall_probability, method, problem_type, max_food>>
kruskal_vars == <<walls, cell_set, set_cells>>
search_vars == <<pending, fringe, visited>>
call_vars == <<rand_pos, no_border, forbidden, ret>>
rerun_vars == <<run, first_layout>>

\* A generator after construction: width > 2, height > 2, the stream seeded.
InitGenerator(m, max_seed) ==
    /\ method = m
    /\ width \in 3..MaxWidth
    /\ height \in 3..MaxHeight
    /\ seed \in 0..max_seed
    /\ rand = Random(seed)
    /\ pc = "start"
    /\ grid = <<>>
    /\ cycle_probability = NotConfigured
    /\ Idle

\* self.random_position(no_border=nb, forbidden=forb) is called: the first
\* draw is made and the call is in its while loop (or about to return).
CallRandomPosition(nb, forb, label) ==
    LET d == random_position_first(rand)
    IN  /\ rand_pos' = d.pos
        /\ rand' = d.rand
        /\ no_border' = nb
        /\ forbidden' = forb
        /\ ret' = label
        /\ pc' = "random_position"

\* random_position: one iteration of "while not_ok".
RandomPositionResample ==
    /\ pc = "random_position"
    /\ not_ok(rand_pos, no_border, forbidden)
    /\ LET d == random_position_resample(rand)
       IN  rand_pos' = d.pos /\ rand' = d.rand
    /\ UNCHANGED <<params, pc, ret, err, grid, layout, kruskal_vars, search_vars,
                   no_border, forbidden, positions, pacman_pos, food_pos, calls,
                   rerun_vars,
                   caller_vars>>

\* random_position returns rand_pos to the call site named by ret.
Returns(label) ==
    /\ pc = "random_position"
    /\ ret = label
    /\ ~not_ok(rand_pos, no_border, forbidden)

---------------------------------------------------------------------------
\* LayoutGenerator.generate_layout(problem_type, max_food), run by the
\* generator whose _generate_plain_layout(grid) it can call:
\* RandomLayoutGenerator.

InitGenerate ==
    /\ InitGenerator("random", MaxSeed)
    /\ wall_probability \in 1..ProbDen
    /\ problem_type \in ProblemType
    /\ max_food \in IF problem_type = FOOD_PROBLEM THEN MaxFoodValues ELSE {DefaultMaxFood}

\* generate_layout up to its first random_position call.
GenerateLayout ==
    /\ pc = "start"
    /\ method = "random"
    /\ grid' = CellGrid(width, height, EMPTY)
    /\ IF problem_type = CORNERS
       THEN /\ food_pos' = get_corners
            /\ CallRandomPosition(FALSE, get_corners, "pacman_pos")
       ELSE /\ food_pos' = <<>>
            /\ CallRandomPosition(FALSE, <<>>, "pacman_pos")
    /\ UNCHANGED <<params, err, layout, kruskal_vars, search_vars, positions,
                   pacman_pos, calls, rerun_vars,
                   caller_vars>>

\* pacman_pos = self.random_position(...); for SEARCH the food position is
\* sampled next, with the agent's position forbidden.
ReturnPacmanPos ==
    /\ Returns("pacman_pos")
    /\ pacman_pos' = rand_pos
    /\ IF problem_type = SEARCH
       THEN CallRandomPosition(FALSE, <<rand_pos>>, "food_pos")
       ELSE /\ pc' = "assign"
            /\ UNCHANGED <<rand, call_vars>>
    /\ UNCHANGED <<params, err, grid, layout, kruskal_vars, search_vars,
                   positions, food_pos, calls, rerun_vars,
                   caller_vars>>

\* food_pos = [self.random_position(forbidden=[pacman_pos])]
ReturnFoodPos ==
    /\ Returns("food_pos")
    /\ food_pos' = <<rand_pos>>
    /\ pc' = "assign"
    /\ UNCHANGED <<params, rand, call_vars, err, grid, layout, kruskal_vars,
                   search_vars, positions, pacman_pos, calls, rerun_vars,
                   caller_vars>>

\* for pos in food_pos: grid[pos].type = CellType.FOOD
assign_food(g, fp) ==
    ForRange(LAMBDA s, i : [s EXCEPT ![fp[i]].type = FOOD], g, 1, Len(fp))

\* grid[pacman_pos].type = PACMAN, then the food cells; an out-of-range
\* position raises IndexError out of generate_layout.
AssignTypes ==
    /\ pc = "assign"
    /\ IF index_raises(pacman_pos) \/ \E i \in 1..Len(food_pos) : index_raises(food_pos[i])
       THEN /\ err' = "IndexError"
            /\ pc' = "raised"
            /\ UNCHANGED grid
       ELSE /\ grid' = assign_food([grid EXCEPT ![pacman_pos].type = PACMAN], food_pos)
            /\ pc' = "carve"
            /\ UNCHANGED err
    /\ UNCHANGED <<params, rand, call_vars, layout, kruskal_vars, search_vars,
                   positions, pacman_pos, food_pos, calls, rerun_vars,
                   caller_vars>>

\* layout = self._generate_plain_layout(grid): RandomLayoutGenerator opens
\* each (cell, direction) wall with probability wall_probability and
\* returns grid.to_layout().
GeneratePlainLayout ==
    /\ pc = "carve"
    /\ LET c == random_carve(grid, rand)
       IN  /\ grid' = c.grid
           /\ rand' = c.rand
           /\ IF c.raised
              THEN /\ err' = "IndexError"
                   /\ pc' = "raised"
                   /\ UNCHANGED layout
              ELSE /\ layout' = to_layout(c.grid)
                   /\ pc' = "fill"
                   /\ UNCHANGED err
    /\ UNCHANGED <<params, call_vars, kruskal_vars, search_vars, positions,
                   pacman_pos, food_pos, calls, rerun_vars,
                   caller_vars>>

\* if problem_type is FOOD: layout.fill_with_food(max_food, self.rand);
\* return layout.
FillAndReturn ==
    /\ pc = "fill"
    /\ IF problem_type = FOOD_PROBLEM
       THEN LET f == fill_with_food(layout, max_food, rand)
            IN  layout' = f.layout /\ rand' = f.rand
       ELSE UNCHANGED <<layout, rand>>
    /\ pc' = "done"
    /\ UNCHANGED <<params, call_vars, err, grid, kruskal_vars, search_vars,
                   positions, pacman_pos, food_pos, calls, rerun_vars,
                   caller_vars>>

NextGenerate ==
    \/ GenerateLayout
    \/ RandomPositionResample
    \/ ReturnPacmanPos
    \/ ReturnFoodPos
    \/ AssignTypes
    \/ GeneratePlainLayout
    \/ FillAndReturn

SpecGenerate == InitGenerate /\ [][NextGenerate]_vars

---------------------------------------------------------------------------
\* The end of the three spanning-tree generators: random_positions(count=2,
\* no_border=False), the agent and food cells, grid.to_layout().

\* self.random_positions(count=2, no_border=False) is called.
CallRandomPositions ==
    /\ positions' = <<>>
    /\ CallRandomPosition(FALSE, <<>>, "positions")

\* random_positions: a sampled position is appended if it is new, and the
\* loop goes on until two positions are held.
RandomPositionsReturn ==
    /\ Returns("positions")
    /\ LET ps == IF InList(rand_pos, positions)
                 THEN positions
                 ELSE Append(positions, rand_pos)
       IN  /\ positions' = ps
           /\ IF Len(ps) < 2
              THEN CallRandomPosition(FALSE, <<>>, "positions")
              ELSE /\ pc' = "place"
                   /\ UNCHANGED <<rand, call_vars>>
    /\ UNCHANGED <<params, err, grid, layout, kruskal_vars, search_vars,
                   pacman_pos, food_pos, calls, rerun_vars,
                   caller_vars>>

\* pacman_pos, food_pos = positions; the two cell types are set; Kruskal
\* asserts that set 1 is empty; the grid is converted.
PlaceAndConvert ==
    /\ pc = "place"
    /\ pacman_pos' = positions[1]
    /\ food_pos' = <<positions[2]>>
    /\ IF index_raises(positions[1]) \/ index_raises(positions[2])
       THEN /\ err' = "IndexError"
            /\ pc' = "raised"
            /\ UNCHANGED <<grid, layout>>
       ELSE /\ grid' = [[grid EXCEPT ![positions[1]].type = PACMAN]
                             EXCEPT ![positions[2]].type = FOOD]
            /\ IF method = "kruskal" /\ set_cells[1] # {}
               THEN /\ err' = "AssertionError"
                    /\ pc' = "raised"
                    /\ UNCHANGED layout
               ELSE /\ layout' = to_layout(grid')
                    /\ pc' = "done"
                    /\ UNCHANGED err
    /\ UNCHANGED <<params, rand, call_vars, kruskal_vars, search_vars,
                   positions, calls, rerun_vars,
                   caller_vars>>

---------------------------------------------------------------------------
\* KruskalLayoutGenerator.generate_layout

\* Kruskal mutant: the merged cells keep their old set index.
relabel_none(cs, new_set, new_set_idx) == cs

\* for pos in new_set: cell_set[pos] = new_set_idx
relabel(cs, new_set, new_set_idx) ==
    [q \in DOMAIN cs |-> IF q \in new_set THEN new_set_idx ELSE cs[q]]

\* Kruskal mutant: the edge's two sets are not compared, every popped wall
\* is opened.
different_sets_always(p_set_idx, n_set_idx) == TRUE

\* if p_set_idx != n_set_idx
different_sets(p_set_idx, n_set_idx) == p_set_idx # n_set_idx

\* The grid, the shuffled wall list and the singleton sets.
KruskalSetup ==
    /\ pc = "start"
    /\ method = "kruskal"
    /\ grid' = CellGrid(width, height, EMPTY)
    /\ LET sh == shuffle(all_edges, rand)
       IN  walls' = sh.x /\ rand' = sh.rand
    /\ cell_set' = [q \in Cells(width, height) |-> q[1] * height + q[2]]
    /\ set_cells' = [i \in 0..(width * height - 1) |-> {all_positions[i + 1]}]
    /\ pc' = "kruskal_loop"
    /\ UNCHANGED <<params, call_vars, err, layout, search_vars, positions,
                   pacman_pos, food_pos, calls, rerun_vars,
                   caller_vars>>

\* One iteration of "while walls".
KruskalStep ==
    /\ pc = "kruskal_loop"
    /\ walls # <<>>
    /\ walls' = Front(walls)
    /\ LET position == Last(walls)[1]
           direction == Last(walls)[2]
           neighbor == Add(position, DirVec(direction))
           p_set_idx == cell_set[position]
           n_set_idx == cell_set[neighbor]
           new_set_idx == IF p_set_idx < n_set_idx THEN p_set_idx ELSE n_set_idx
           new_set == set_cells[p_set_idx] \cup set_cells[n_set_idx]
           is_p_set == p_set_idx = new_set_idx
       IN  IF different_sets(p_set_idx, n_set_idx)
           THEN IF open_wall_raises(position, direction)
                THEN /\ err' = "IndexError"
                     /\ pc' = "raised"
                     /\ UNCHANGED <<grid, cell_set, set_cells>>
                ELSE /\ grid' = open_wall(grid, position, direction)
                     /\ set_cells' =
                            [[set_cells EXCEPT ![p_set_idx] =
                                  IF is_p_set THEN new_set ELSE {}]
                                        EXCEPT ![n_set_idx] =
                                  IF is_p_set THEN {} ELSE new_set]
                     /\ cell_set' = relabel(cell_set, new_set, new_set_idx)
                     /\ UNCHANGED <<pc, err>>
           ELSE UNCHANGED <<grid, cell_set, set_cells, pc, err>>
    /\ UNCHANGED <<params, rand, call_vars, layout, search_vars, positions,
                   pacman_pos, food_pos, calls, rerun_vars,
                   caller_vars>>

\* The wall list is empty: the agent and the food are placed.
KruskalPlace ==
    /\ pc = "kruskal_loop"
    /\ walls = <<>>
    /\ CallRandomPositions
    /\ UNCHANGED <<params, err, grid, layout, kruskal_vars, search_vars,
                   pacman_pos, food_pos, calls, rerun_vars,
                   caller_vars>>

NextKruskal ==
    \/ KruskalSetup
    \/ KruskalStep
    \/ KruskalPlace
    \/ RandomPositionsReturn
    \/ PlaceAndConvert

InitKruskal ==
    /\ InitGenerator("kruskal", MaxTreeSeed)
    /\ wall_probability = 0
    /\ problem_type = "none"
    /\ max_food = 0

SpecKruskal == InitKruskal /\ [][NextKruskal]_vars

---------------------------------------------------------------------------
\* PrimLayoutGenerator._generate_plain_layout

\* Prim mutant: the popped cell is expanded whether visited or not.
prim_unvisited_always(cur_pos, vis) == TRUE

\* if cur_pos not in visited
prim_unvisited(cur_pos, vis) == cur_pos \notin vis

\* The grid, and the call that samples the start cell.
PrimSetup ==
    /\ pc = "start"
    /\ method = "prim"
    /\ grid' = CellGrid(width, height, EMPTY)
    /\ CallRandomPosition(FALSE, <<>>, "cur_pos")
    /\ UNCHANGED <<params, err, layout, kruskal_vars, search_vars, positions,
                   pacman_pos, food_pos, calls, rerun_vars,
                   caller_vars>>

\* pending = grid.get_neighbors(cur_pos); visited = {cur_pos}
PrimBegin ==
    /\ Returns("cur_pos")
    /\ pending' = get_neighbors(rand_pos)
    /\ visited' = {rand_pos}
    /\ pc' = "prim_loop"
    /\ UNCHANGED <<params, rand, call_vars, err, grid, layout, kruskal_vars,
                   fringe, positions, pacman_pos, food_pos, calls, rerun_vars,
                   caller_vars>>

\* One iteration of "while pending".
PrimStep ==
    /\ pc = "prim_loop"
    /\ pending # <<>>
    /\ LET cur_pos == Last(pending)[1]
           direction == Last(pending)[2]
           rest == Front(pending)
       IN  IF prim_unvisited(cur_pos, visited)
           THEN IF open_wall_raises(cur_pos, reverse(direction))
                THEN /\ err' = "IndexError"
                     /\ pc' = "raised"
                     /\ UNCHANGED <<grid, pending, visited, rand>>
                ELSE LET extended ==
                             rest \o SelectSeq(get_neighbors(cur_pos),
                                               LAMBDA nb : nb[1] \notin visited)
                         sh == shuffle(extended, rand)
                     IN  /\ grid' = open_wall(grid, cur_pos, reverse(direction))
                         /\ pending' = sh.x
                         /\ rand' = sh.rand
                         /\ visited' = visited \cup {cur_pos}
                         /\ UNCHANGED <<pc, err>>
           ELSE /\ pending' = rest
                /\ UNCHANGED <<grid, visited, rand, pc, err>>
    /\ UNCHANGED <<params, call_vars, layout, kruskal_vars, fringe, positions,
                   pacman_pos, food_pos, calls, rerun_vars,
                   caller_vars>>

\* The frontier is empty: the agent and the food are placed.
PrimPlace ==
    /\ pc = "prim_loop"
    /\ pending = <<>>
    /\ CallRandomPositions
    /\ UNCHANGED <<params, err, grid, layout, kruskal_vars, search_vars,
                   pacman_pos, food_pos, calls, rerun_vars,
                   caller_vars>>

NextPrim ==
    \/ PrimSetup
    \/ PrimBegin
    \/ PrimStep
    \/ PrimPlace
    \/ RandomPositionsReturn
    \/ PlaceAndConvert

InitPrim ==
    /\ InitGenerator("prim", MaxTreeSeed)
    /\ wall_probability = 0
    /\ problem_type = "none"
    /\ max_food = 0

SpecPrim == InitPrim /\ [][NextPrim]_vars

---------------------------------------------------------------------------
\* RandomizedDfsLayoutGenerator.generate_layout
\* A fringe frame is a pair <<position, neighbors>>; neighbors.pop() takes
\* the last entry of the frame's own list, so the frame on the fringe
\* shrinks with it.

\* DFS mutant: the frame is dropped although neighbors remain.
frame_exhausted_always(neighbors) == TRUE

\* DFS mutant: the frame is never dropped, an emptied one stays on top.
frame_exhausted_never(neighbors) == FALSE

\* if not neighbors (after the pop)
frame_exhausted(neighbors) == neighbors = <<>>

\* The grid, and the call that samples the start cell.
DfsSetup ==
    /\ pc = "start"
    /\ method = "dfs"
    /\ grid' = CellGrid(width, height, EMPTY)
    /\ CallRandomPosition(FALSE, <<>>, "position")
    /\ UNCHANGED <<params, err, layout, kruskal_vars, search_vars, positions,
                   pacman_pos, food_pos, calls, rerun_vars,
                   caller_vars>>

\* neighbors = grid.get_neighbors(position); with none the bare grid is
\* converted and returned, else the first frame is pushed.
DfsBegin ==
    /\ Returns("position")
    /\ LET neighbors == get_neighbors(rand_pos)
       IN  IF neighbors = <<>>
           THEN /\ layout' = to_layout(grid)
                /\ pc' = "done"
                /\ UNCHANGED <<fringe, visited>>
           ELSE /\ fringe' = << <<rand_pos, neighbors>> >>
                /\ visited' = {rand_pos}
                /\ pc' = "dfs_loop"
                /\ UNCHANGED layout
    /\ UNCHANGED <<params, rand, call_vars, err, grid, kruskal_vars, pending,
                   positions, pacman_pos, food_pos, calls, rerun_vars,
                   caller_vars>>

\* One iteration of "while fringe".
DfsStep ==
    /\ pc = "dfs_loop"
    /\ fringe # <<>>
    /\ LET position == Last(fringe)[1]
           neighbors == Last(fringe)[2]
       IN  IF neighbors = <<>>
           THEN \* neighbors.pop() on an empty list
                /\ err' = "IndexError"
                /\ pc' = "raised"
                /\ UNCHANGED <<grid, fringe, visited, rand>>
           ELSE LET neighbor == Last(neighbors)[1]
                    direction == Last(neighbors)[2]
                    rest == Front(neighbors)
                    popped == IF frame_exhausted(rest)
                              THEN Front(fringe)
                              ELSE [fringe EXCEPT ![Len(fringe)] = <<position, rest>>]
                IN  IF neighbor \notin visited
                    THEN IF open_wall_raises(position, direction)
                         THEN /\ err' = "IndexError"
                              /\ pc' = "raised"
                              /\ UNCHANGED <<grid, fringe, visited, rand>>
                         ELSE LET next_neighbors == get_neighbors(neighbor)
                                  sh == shuffle(next_neighbors, rand)
                              IN  /\ grid' = open_wall(grid, position, direction)
                                  /\ visited' = visited \cup {neighbor}
                                  /\ IF next_neighbors # <<>>
                                     THEN /\ fringe' = Append(popped, <<neighbor, sh.x>>)
                                          /\ rand' = sh.rand
                                     ELSE /\ fringe' = popped
                                          /\ UNCHANGED rand
                                  /\ UNCHANGED <<pc, err>>
                    ELSE /\ fringe' = popped
                         /\ UNCHANGED <<grid, visited, rand, pc, err>>
    /\ UNCHANGED <<params, call_vars, layout, kruskal_vars, pending, positions,
                   pacman_pos, food_pos, calls, rerun_vars,
                   caller_vars>>

\* The fringe is empty: the agent and the food are placed.
DfsPlace ==
    /\ pc = "dfs_loop"
    /\ fringe = <<>>
    /\ CallRandomPositions
    /\ UNCHANGED <<params, err, grid, layout, kruskal_vars, search_vars,
                   pacman_pos, food_pos, calls, rerun_vars,
                   caller_vars>>

NextDfs ==
    \/ DfsSetup
    \/ DfsBegin
    \/ DfsStep
    \/ DfsPlace
    \/ RandomPositionsReturn
    \/ PlaceAndConvert

InitDfs ==
    /\ InitGenerator("dfs", MaxTreeSeed)
    /\ wall_probability = 0
    /\ problem_type = "none"
    /\ max_food = 0

SpecDfs == InitDfs /\ [][NextDfs]_vars

---------------------------------------------------------------------------
\* The three spanning-tree generators as a running program: a generation
\* that has started keeps executing its next statement, so a step that is
\* enabled is eventually taken (weak fairness of the program's own steps;
\* nothing is assumed about the random draws, which the seed fixes).

InitTrees ==
    \/ InitKruskal
    \/ InitPrim
    \/ InitDfs

NextTrees ==
    \/ NextKruskal
    \/ NextPrim
    \/ NextDfs

LoopStep ==
    \/ KruskalStep
    \/ PrimStep
    \/ DfsStep

SpecTreesFair == InitTrees /\ [][NextTrees]_vars /\ WF_vars(LoopStep)

---------------------------------------------------------------------------
\* Repeated generation: a generator of any of the four classes returns a
\* layout, and a second generator built with the same arguments (so seeded
\* alike) generates again.

\* Rerun mutant: the second generator's stream is not seeded again, it goes
\* on from where the first run left it.
Reseed_continue(s, r) == r

\* self.rand = Random(self.seed) of the second generator; r is the stream
\* the first run left behind.
Reseed(s, r) == Random(s)

Rerun ==
    /\ pc = "done"
    /\ run = 1
    /\ run' = 2
    /\ first_layout' = layout
    /\ rand' = Reseed(seed, rand)
    /\ pc' = "start"
    /\ grid' = <<>>
    /\ layout' = <<>>
    /\ walls' = <<>>
    /\ cell_set' = <<>>
    /\ set_cells' = <<>>
    /\ pending' = <<>>
    /\ fringe' = <<>>
    /\ visited' = {}
    /\ rand_pos' = NoPosition
    /\ no_border' = FALSE
    /\ forbidden' = <<>>
    /\ positions' = <<>>
    /\ pacman_pos' = NoPosition
    /\ food_pos' = <<>>
    /\ ret' = "none"
    /\ UNCHANGED <<params, err, calls, caller_vars>>

InitRerun ==
    \/ InitGenerate
    \/ InitKruskal
    \/ InitPrim
    \/ InitDfs

NextRerun ==
    \/ NextGenerate
    \/ NextKruskal
    \/ NextPrim
    \/ NextDfs
    \/ Rerun

SpecRerun == InitRerun /\ [][NextRerun]_vars

---------------------------------------------------------------------------
\* LayoutGenerator.random_position called directly on a constructed
\* generator, with either value of no_border and a forbidden list (None and
\* [] are the same list after "forbidden or []").

ForbiddenLists == {<<>>, << <<1, 1>> >>, get_corners}

InitRandomPosition ==
    /\ InitGenerator("prim", MaxSeed)
    /\ wall_probability = 0
    /\ problem_type = "none"
    /\ max_food = 0

\* position = generator.random_position(no_border=nb, forbidden=forb)
RandomPositionCall ==
    /\ pc = "start"
    /\ calls < MaxCalls
    /\ \E nb \in BOOLEAN, forb \in ForbiddenLists :
           CallRandomPosition(nb, forb, "caller")
    /\ calls' = calls + 1
    /\ UNCHANGED <<params, err, grid, layout, kruskal_vars, search_vars,
                   positions, pacman_pos, food_pos, rerun_vars, caller_vars>>

\* The call returns rand_pos to the caller, which keeps it (positions).
RandomPositionReturn ==
    /\ Returns("caller")
    /\ positions' = <<rand_pos>>
    /\ pc' = "start"
    /\ UNCHANGED <<params, rand, call_vars, err, grid, layout, kruskal_vars,
                   search_vars, pacman_pos, food_pos, calls, rerun_vars,
                   caller_vars>>

NextRandomPosition ==
    \/ RandomPositionCall
    \/ RandomPositionResample
    \/ RandomPositionReturn

SpecRandomPosition == InitRandomPosition /\ [][NextRandomPosition]_vars

---------------------------------------------------------------------------
\* Construction of a generator, by a direct call of the class and by the
\* command line's main().

\* LayoutMethod: the generator classes.
LayoutMethod == {"prim", "kruskal", "random", "dfs"}

\* The methods each generator class body defines.
defined_methods(cls) ==
    CASE cls = "kruskal" -> {"generate_layout"}
      [] cls = "prim" -> {"_generate_plain_layout"}
      [] cls = "dfs" -> {"generate_layout"}
      [] cls = "random" -> {"__init__", "_generate_plain_layout"}

\* LayoutGenerator is an abc.ABC whose _generate_plain_layout is an
\* abstractmethod: a subclass that does not define it cannot be instantiated.
is_abstract(cls) == "_generate_plain_layout" \notin defined_methods(cls)

\* The keyword parameters of the class's __init__.
init_params(cls) ==
    IF cls = "random"
    THEN {"width", "height", "seed", "wall_probability"}
    ELSE {"width", "height", "seed"}

\* cls(**keywords): the exception the call raises, "none" when it returns a
\* generator.  An abstract class and a keyword that __init__ does not take
\* raise TypeError; __init__ validates width, height and, for the random
\* generator, wall_probability.
construct(cls, keywords, w, h, wp) ==
    IF is_abstract(cls) \/ keywords # init_params(cls)
    THEN "TypeError"
    ELSE IF w <= 2
    THEN "ValueError"
    ELSE IF h <= 2
    THEN "ValueError"
    ELSE IF cls = "random" /\ (wp <= 0 \/ wp > ProbDen)
    THEN "ValueError"
    ELSE "none"

\* The arguments of a construction: any class, sizes from 1 up, and for the
\* random generator a wall_probability from 0 to above 1.  The run starts
\* at "new" (the class is called directly) or at "main" (the command line).
InitConstruct ==
    /\ method \in LayoutMethod
    /\ width \in 1..MaxWidth
    /\ height \in 1..MaxHeight
    /\ seed \in {0, MaxSeed}
    /\ rand = 0
    /\ wall_probability \in IF method = "random" THEN 0..(ProbDen + 1) ELSE {0}
    /\ problem_type \in IF method = "random" THEN ProblemType ELSE {"none"}
    /\ max_food = IF method = "random" THEN DefaultMaxFood ELSE 0
    /\ pc \in {"new", "main"}
    /\ cycle_probability \in IF pc = "main" THEN {0, ProbDen} ELSE {NotConfigured}
    /\ grid = <<>>
    /\ Idle

\* cls(width=, height=, seed=[, wall_probability=]): the generator is
\* obtained (its stream seeded) or the exception leaves the call.
Construct ==
    /\ pc = "new"
    /\ LET e == construct(method, init_params(method), width, height,
                          wall_probability)
       IN  /\ err' = e
           /\ pc' = IF e = "none" THEN "start" ELSE "raised"
           /\ rand' = IF e = "none" THEN Random(seed) ELSE rand
    /\ UNCHANGED <<params, call_vars, grid, layout, kruskal_vars, search_vars,
                   positions, pacman_pos, food_pos, calls, rerun_vars,
                   caller_vars>>

\* main(): _create_layout_generator passes cycle_probability to every
\* class; a ValueError is reported and the program exits, any other
\* exception ends the program, and with a generator main goes on to
\* generate_layout and print.
Main ==
    /\ pc = "main"
    /\ LET e == construct(method, init_params(method) \cup {"cycle_probability"},
                          width, height, wall_probability)
       IN  /\ err' = e
           /\ pc' = CASE e = "none" -> "start"
                      [] e = "ValueError" -> "exit"
                      [] OTHER -> "aborted"
           /\ rand' = IF e = "none" THEN Random(seed) ELSE rand
    /\ UNCHANGED <<params, call_vars, grid, layout, kruskal_vars, search_vars,
                   positions, pacman_pos, food_pos, calls, rerun_vars,
                   caller_vars>>

NextConstruct ==
    \/ Construct
    \/ Main
    \/ NextGenerate
    \/ NextPrim

SpecConstruct == InitConstruct /\ [][NextConstruct]_vars

---------------------------------------------------------------------------
\* Claims about the bare grid.

\* The number of the grid's shared walls that are open (each adjacent pair
\* of cells counted once, read from the flag of its left or upper cell).
OpenPairs(g) ==
    {<<p, d>> \in Cells(width, height) \X {"RIGHT", "DOWN"} :
        ~is_out_of_bounds(Add(p, DirVec(d))) /\ is_open(g[p], d)}

\* C4: wall symmetry.  After any sequence of open_wall calls on a fresh
\* grid, failing ones included, the two flags of every shared wall agree:
\* grid[p].is_open(d) = grid[p + d].is_open(d.reverse()).
C4_WallSymmetry ==
    \A p \in Cells(width, height), d \in Directions :
        ~is_out_of_bounds(Add(p, DirVec(d))) =>
            (is_open(grid[p], d) <=> is_open(grid[Add(p, DirVec(d))], reverse(d)))

\* C4 witness: a bare grid with at least two open shared walls on which the
\* last open_wall call failed.
C4_Witness ==
    /\ method = "grid"
    /\ err = "IndexError"
    /\ Cardinality(OpenPairs(grid)) >= 2

\* What the doubled-grid transform puts at layout cell q.
DoubledCell(g, q) ==
    IF q[1] % 2 = 1 /\ q[2] % 2 = 1
    THEN g[<<(q[1] - 1) \div 2, (q[2] - 1) \div 2>>].type
    ELSE IF q[1] % 2 = 0 /\ q[2] % 2 = 1 /\ 0 < q[1] /\ q[1] < 2 * width
    THEN IF is_open(g[<<(q[1] - 2) \div 2, (q[2] - 1) \div 2>>], "RIGHT")
         THEN EMPTY ELSE WALL
    ELSE IF q[1] % 2 = 1 /\ q[2] % 2 = 0 /\ 0 < q[2] /\ q[2] < 2 * height
    THEN IF is_open(g[<<(q[1] - 1) \div 2, (q[2] - 2) \div 2>>], "DOWN")
         THEN EMPTY ELSE WALL
    ELSE WALL

\* C9: to_layout is the doubled-grid transform.  The layout has 2*width+1
\* columns and 2*height+1 rows; cell (2x+1, 2y+1) holds the type of grid
\* cell (x, y); the cell midway between two adjacent grid cells is EMPTY iff
\* their shared wall is open, else WALL; every other cell, the border ring
\* included, is WALL.
C9_ToLayoutDoubled ==
    (method = "grid" /\ pc = "done") =>
        /\ DOMAIN layout = Cells(2 * width + 1, 2 * height + 1)
        /\ \A q \in DOMAIN layout : layout[q] = DoubledCell(grid, q)

\* C9 witness: a converted grid with an open horizontal wall, an open
\* vertical wall and a typed cell.
C9_Witness ==
    /\ method = "grid"
    /\ pc = "done"
    /\ \E p \in Cells(width, height) : is_open(grid[p], "RIGHT")
    /\ \E p \in Cells(width, height) : is_open(grid[p], "DOWN")
    /\ \E p \in Cells(width, height) : grid[p].type = PACMAN

---------------------------------------------------------------------------
\* Claims about the spanning-tree generators.

\* The two flags of every shared wall of g agree.
WallsAgree(g) ==
    \A p \in Cells(width, height), d \in Directions :
        ~is_out_of_bounds(Add(p, DirVec(d))) =>
            (is_open(g[p], d) <=> is_open(g[Add(p, DirVec(d))], reverse(d)))

\* The cells one open wall away from a cell of S, with S itself.
Step(g, S) ==
    S \cup UNION {{Add(p, DirVec(d)) : d \in {e \in Directions : is_open(g[p], e)}} :
                    p \in S}

\* The cells reachable from cell (0, 0) through open walls.
Reachable(g) ==
    ForRange(LAMBDA S, k : Step(g, S), {<<0, 0>>}, 1, width * height)

\* The open walls of g form a spanning tree of the grid's cells.
SpanningTree(g) ==
    /\ WallsAgree(g)
    /\ Cardinality(OpenPairs(g)) = width * height - 1
    /\ Reachable(g) = Cells(width, height)

KruskalLoopEnded ==
    /\ method = "kruskal"
    /\ (pc = "kruskal_loop" /\ walls = <<>>) \/ ret = "positions"

\* C1: randomized Kruskal.  When the edge loop has ended, exactly
\* width*height - 1 shared walls are open and every cell is reachable from
\* every other through open walls: the open walls form a spanning tree.
C1_KruskalSpanningTree == KruskalLoopEnded => SpanningTree(grid)

\* C1 witness: the edge loop has just ended on a grid that is not square.
C1_Witness ==
    /\ method = "kruskal"
    /\ pc = "kruskal_loop"
    /\ walls = <<>>
    /\ width # height
    /\ Cardinality(OpenPairs(grid)) = width * height - 1

PrimLoopEnded ==
    /\ method = "prim"
    /\ (pc = "prim_loop" /\ pending = <<>>) \/ ret = "positions"

\* A step of Prim's loop that changes the grid opens one shared wall, the
\* one between the popped cell and a visited cell, and the popped cell was
\* unvisited.
PrimOpensTowardUnvisited ==
    (method = "prim" /\ pc = "prim_loop" /\ grid' # grid) =>
        LET cur_pos == Last(pending)[1]
            opened == OpenPairs(grid') \ OpenPairs(grid)
        IN  /\ pending # <<>>
            /\ cur_pos \notin visited
            /\ OpenPairs(grid) \subseteq OpenPairs(grid')
            /\ Cardinality(opened) = 1
            /\ \A e \in opened :
                  \/ e[1] = cur_pos /\ Add(e[1], DirVec(e[2])) \in visited
                  \/ Add(e[1], DirVec(e[2])) = cur_pos /\ e[1] \in visited

\* C2: randomized Prim.  When the frontier is empty every cell has been
\* visited and the open walls form a spanning tree (width*height - 1 open
\* shared walls connecting all cells); and a wall is opened only toward a
\* cell that was unvisited when its edge was popped.
C2_PrimSpanningTree ==
    /\ [](PrimLoopEnded => (visited = Cells(width, height) /\ SpanningTree(grid)))
    /\ [][PrimOpensTowardUnvisited]_vars

\* C2 witness: the frontier has just emptied on a grid that is not square,
\* with every cell visited.
C2_Witness ==
    /\ method = "prim"
    /\ pc = "prim_loop"
    /\ pending = <<>>
    /\ width # height
    /\ visited = Cells(width, height)

DfsLoopEnded ==
    /\ method = "dfs"
    /\ (pc = "dfs_loop" /\ fringe = <<>>) \/ ret = "positions"

\* A step of the DFS loop keeps the frames below the top one, and keeps the
\* top frame (one neighbor shorter) exactly when neighbors remain in it.
DfsFrameRule ==
    (method = "dfs" /\ pc = "dfs_loop" /\ fringe # <<>> /\ fringe' # fringe) =>
        LET k == Len(fringe)
            top == fringe[k]
            kept == /\ Len(fringe') >= k
                    /\ fringe'[k] = <<top[1], Front(top[2])>>
        IN  /\ Len(fringe') >= k - 1
            /\ SubSeq(fringe', 1, k - 1) = Front(fringe)
            /\ kept <=> Len(top[2]) > 1

\* C3: randomized DFS.  When the fringe is empty every cell has been
\* visited and the open walls form a spanning tree; a frame leaves the
\* fringe exactly when its list of remaining neighbors becomes empty, so no
\* frame on the fringe has an empty list.
C3_DfsSpanningTree ==
    /\ [](DfsLoopEnded => (visited = Cells(width, height) /\ SpanningTree(grid)))
    /\ [](method = "dfs" => \A i \in 1..Len(fringe) : fringe[i][2] # <<>>)
    /\ [][DfsFrameRule]_vars

\* C3 witness: the fringe has just emptied on a grid that is not square,
\* with every cell visited.
C3_Witness ==
    /\ method = "dfs"
    /\ pc = "dfs_loop"
    /\ fringe = <<>>
    /\ width # height
    /\ visited = Cells(width, height)

---------------------------------------------------------------------------
\* Claims about repeated generation.

---------------------------------------------------------------------------
\* Claims about generate_layout(problem_type, max_food).

\* The layout cell that holds grid cell p.
Image(p) == <<2 * p[1] + 1, 2 * p[2] + 1>>

\* The layout cells of type t.
CellsOfType(lay, t) == {q \in DOMAIN lay : lay[q] = t}

Returned(pt) == method = "random" /\ problem_type = pt /\ pc = "done"

\* C6: SEARCH placement.  A layout returned by generate_layout(SEARCH, _)
\* has exactly one PACMAN cell and exactly one FOOD cell, the images of two
\* different grid positions.
C6_SearchPlacement ==
    Returned(SEARCH) =>
        /\ Cardinality(CellsOfType(layout, PACMAN)) = 1
        /\ Cardinality(CellsOfType(layout, FOOD)) = 1
        /\ \E p, f \in Cells(width, height) :
              /\ p # f
              /\ layout[Image(p)] = PACMAN
              /\ layout[Image(f)] = FOOD

\* C6 witness: a SEARCH layout returned for a grid that is not square, the
\* agent on the grid's outer ring.
C6_Witness ==
    /\ Returned(SEARCH)
    /\ width # height
    /\ pacman_pos[1] = 0
    /\ CellsOfType(layout, FOOD) # {}

\* The four grid corners.
Corners == {<<0, 0>>, <<0, height - 1>>, <<width - 1, 0>>, <<width - 1, height - 1>>}

\* C7: CORNERS placement.  A layout returned by generate_layout(CORNERS, _)
\* has FOOD at the images of the four grid corners and nowhere else, and
\* exactly one PACMAN cell, the image of a grid position that is no corner.
C7_CornersPlacement ==
    Returned(CORNERS) =>
        /\ CellsOfType(layout, FOOD) = {Image(c) : c \in Corners}
        /\ Cardinality(CellsOfType(layout, PACMAN)) = 1
        /\ \E p \in Cells(width, height) \ Corners : layout[Image(p)] = PACMAN

\* C7 witness: a CORNERS layout returned for a grid that is not square, the
\* agent on the outer ring next to a corner.
C7_Witness ==
    /\ Returned(CORNERS)
    /\ width # height
    /\ pacman_pos \in {<<0, 1>>, <<1, 0>>}
    /\ Cardinality(CellsOfType(layout, FOOD)) = 4

\* The layout fill_with_food was called on: the carved grid's layout.
BeforeFill == to_layout(grid)

\* min(a, b)
Min(a, b) == IF a < b THEN a ELSE b

\* C8: food scattering.  fill_with_food(max_food, rand) on a layout with E
\* EMPTY cells turns min(max_food, E) cells into FOOD when max_food > 0 and
\* all E when max_food <= 0; every cell it changes was EMPTY and becomes
\* FOOD, every other cell keeps its type, the agent's included.
C8_FillWithFood ==
    Returned(FOOD_PROBLEM) =>
        LET before == BeforeFill
            E == Cardinality(CellsOfType(before, EMPTY))
            changed == {q \in DOMAIN layout : layout[q] # before[q]}
        IN  /\ DOMAIN layout = DOMAIN before
            /\ Cardinality(changed) = IF max_food > 0 THEN Min(max_food, E) ELSE E
            /\ \A q \in changed : before[q] = EMPTY /\ layout[q] = FOOD
            /\ CellsOfType(layout, FOOD) = changed
            /\ layout[Image(pacman_pos)] = PACMAN

\* C8 witness: a FOOD layout whose max_food is positive and smaller than
\* the number of EMPTY cells, so that EMPTY cells remain beside the food.
C8_Witness ==
    /\ Returned(FOOD_PROBLEM)
    /\ max_food > 0
    /\ Cardinality(CellsOfType(layout, FOOD)) = max_food
    /\ CellsOfType(layout, EMPTY) # {}

\* The other case of C8: every EMPTY cell was turned into FOOD, max_food
\* being larger than their number or not positive.
C8_AllFilled ==
    /\ Returned(FOOD_PROBLEM)
    /\ CellsOfType(layout, EMPTY) = {}
    /\ CellsOfType(layout, FOOD) # {}

\* C10: random_position returns an in-bounds grid coordinate.  Whenever
\* random_position is about to return, 0 <= x < width and 0 <= y < height,
\* and generate_layout never raises IndexError when it assigns the agent
\* and food cells.
C10_RandomPositionInBounds ==
    /\ (pc = "random_position" /\ ~not_ok(rand_pos, no_border, forbidden)) =>
           rand_pos \in Cells(width, height)
    /\ err # "IndexError"

---------------------------------------------------------------------------
\* Claims about position sampling.

\* The positions a draw of random_position's while loop can produce.
ResampleDraws == {<<x, y>> : x \in 1..(height - 2), y \in 1..(width - 2)}

\* C11: position sampling terminates.  In every state of random_position's
\* resampling loop at least one position the resample can draw is accepted
\* (so that under fair random choice the loop exits and generate_layout
\* returns).
C11_ResampleCanExit ==
    (pc = "random_position" /\ not_ok(rand_pos, no_border, forbidden)) =>
        \E p \in ResampleDraws : ~not_ok(p, no_border, forbidden)

---------------------------------------------------------------------------
\* Claims about construction and the command line.

\* The configuration the constructors accept.
ValidConfiguration ==
    /\ width > 2
    /\ height > 2
    /\ method = "random" => (0 < wall_probability /\ wall_probability <= ProbDen)

\* C12: configuration errors are raised at construction.  Constructing a
\* generator succeeds iff width > 2 and height > 2 and, for the random
\* generator, 0 < wall_probability <= 1; otherwise it raises ValueError,
\* and after a failed construction no layout exists.
C12_ConstructionErrors ==
    /\ [][pc = "new" =>
            IF ValidConfiguration
            THEN pc' = "start" /\ err' = "none"
            ELSE pc' = "raised" /\ err' = "ValueError"]_vars
    /\ [](err = "ValueError" => layout = <<>>)

\* Every shared wall between two adjacent cells of g is open.
AllSharedWallsOpen(g) ==
    \A p \in Cells(width, height), d \in Directions :
        ~is_out_of_bounds(Add(p, DirVec(d))) => is_open(g[p], d)

\* C15: cycle pass.  A generator configured with a cycle_probability (which
\* the command line does for every class) generates, and with
\* cycle_probability = 1 every shared wall of the grid converted to the
\* returned layout is open.
C15_CyclePass ==
    (pc # "main" /\ cycle_probability # NotConfigured /\ ValidConfiguration) =>
        /\ err # "TypeError"
        /\ (pc = "done" /\ cycle_probability = ProbDen) => AllSharedWallsOpen(grid)

---------------------------------------------------------------------------
\* Claims about open_wall.

\* What a recorded open_wall(p, d) call must have done to the grid.
OpenWallEffect(p, d) ==
    LET n == Add(p, DirVec(d))
        out == p \notin Cells(width, height) \/ n \notin Cells(width, height)
    IN  /\ (err' = "IndexError") <=> out
        /\ out => grid' = grid
        /\ ~out =>
              /\ err' = "none"
              /\ \A q \in Cells(width, height) :
                    /\ grid'[q].type = grid[q].type
                    /\ \A e \in Directions :
                          grid'[q].walls[e] =
                              IF (q = p /\ e = d) \/ (q = n /\ e = reverse(d))
                              THEN FALSE
                              ELSE grid[q].walls[e]

\* C13: open_wall(p, d) raises IndexError iff p or p + d lies outside the
\* grid; a failing call changes no wall flag, a successful one opens the
\* flag of p facing d and the flag of p + d facing d.reverse() and changes
\* no other flag and no cell type.
C13_OpenWall ==
    [][(method = "grid" /\ calls' = calls + 1 /\ last_call' # <<>>) =>
           OpenWallEffect(last_call'[1], last_call'[2])]_vars

\* C13 witness: a call has succeeded and the one after it has failed.
C13_Witness ==
    /\ method = "grid"
    /\ last_call # <<>>
    /\ calls = 2
    /\ err = "IndexError"
    /\ OpenPairs(grid) # {}

---------------------------------------------------------------------------
\* Claims about the independent-probability generator.

\* C14: with wall_probability = 1.0 the carving leaves zero open walls:
\* after _generate_plain_layout every wall flag of every cell is closed.
C14_ProbabilityOneNoOpenWalls ==
    (method = "random" /\ wall_probability = ProbDen /\ pc \in {"fill", "done"}) =>
        \A p \in Cells(width, height), d \in Directions : ~is_open(grid[p], d)

---------------------------------------------------------------------------
\* Claims about the border test.

\* The outer ring of the width x height grid.
OnOuterRing(p) ==
    \/ p[1] = 0
    \/ p[1] = width - 1
    \/ p[2] = 0
    \/ p[2] = height - 1

\* C16: is_border(p) is true iff p lies on the outer ring, for every
\* in-bounds candidate the sampling tests, non-square grids included; and a
\* position returned by random_position(no_border=True) is never on the
\* outer ring.
C16_IsBorderOuterRing ==
    /\ (pc = "random_position" /\ rand_pos \in Cells(width, height)) =>
           (is_border(rand_pos) <=> OnOuterRing(rand_pos))
    /\ (ret = "caller" /\ pc = "start" /\ no_border /\ positions # <<>>) =>
           ~OnOuterRing(positions[1])

---------------------------------------------------------------------------
\* Claims about the carving loops.

\* The (position, direction) the next iteration of a carving loop can pass
\* to open_wall: the popped Kruskal edge, the popped Prim entry with its
\* direction reversed, the DFS top frame's position with its last neighbor's
\* direction.
NextWallRequest ==
    IF pc = "kruskal_loop" /\ walls # <<>>
    THEN {Last(walls)}
    ELSE IF pc = "prim_loop" /\ pending # <<>>
    THEN {<<Last(pending)[1], reverse(Last(pending)[2])>>}
    ELSE IF pc = "dfs_loop" /\ fringe # <<>> /\ Last(fringe)[2] # <<>>
    THEN {<<Last(fringe)[1], Last(Last(fringe)[2])[2]>>}
    ELSE {}

\* C17: no carving loop requests an out-of-bounds wall.  In every state of
\* the Kruskal, Prim and DFS loops the wall the next iteration can open has
\* its position and its neighbor inside the grid; the entry Prim is about to
\* pop has cell + direction.reverse() in bounds and visited; and no step of
\* any of the four carving loops ends with the IndexError of open_wall.
C17_CarvingInBounds ==
    /\ [](\A c \in NextWallRequest :
              /\ c[1] \in Cells(width, height)
              /\ Add(c[1], DirVec(c[2])) \in Cells(width, height))
    /\ []((pc = "prim_loop" /\ pending # <<>>) =>
              LET e == Last(pending)
                  from == Add(e[1], DirVec(reverse(e[2])))
              IN  from \in Cells(width, height) /\ from \in visited)
    /\ [][(pc \in {"carve", "kruskal_loop", "prim_loop", "dfs_loop"}) =>
              ~(pc' = "raised" /\ err' = "IndexError")]_vars

\* Prim is about to expand an unvisited cell of the outer ring reached from
\* an inner neighbor, with walls already opened.
C17_Witness ==
    /\ method = "prim"
    /\ pc = "prim_loop"
    /\ pending # <<>>
    /\ Last(pending)[1] \notin visited
    /\ OnOuterRing(Last(pending)[1])
    /\ OpenPairs(grid) # {}
    /\ Cardinality(visited) >= 3

\* The carving loop is at its "while" test with nothing left to process.
LoopExhausted ==
    \/ pc = "kruskal_loop" /\ walls = <<>>
    \/ pc = "prim_loop" /\ pending = <<>>
    \/ pc = "dfs_loop" /\ fringe = <<>>

\* Neighbor entries still held by the frames of the DFS fringe.
FringeEntries ==
    ForRange(LAMBDA acc, i : acc + Len(fringe[i][2]), 0, 1, Len(fringe))

\* A measure every loop iteration decreases: the unprocessed edges
\* (Kruskal), or the unvisited cells and then the entries still to pop
\* (Prim's frontier, the DFS frames).
LoopVariant ==
    LET unvisited == width * height - Cardinality(visited)
        weight == 4 * width * height + 1
    IN  CASE pc = "kruskal_loop" -> Len(walls)
          [] pc = "prim_loop" -> unvisited * weight + Len(pending)
          [] pc = "dfs_loop" -> unvisited * weight + FringeEntries
          [] OTHER -> 0

\* The elements of a list.
Elems(seq) == {seq[i] : i \in DOMAIN seq}

\* C18: every carving loop terminates.  A running loop reaches its
\* exhausted "while" test, and each iteration decreases LoopVariant, so no
\* sequence of draws keeps a loop going.  Kruskal's loop starts with every
\* candidate (cell, direction) edge once in the list and each iteration pops
\* exactly the last one; the DFS frames on the fringe always hold a neighbor,
\* so no iteration pops from an empty list.
C18_CarvingTerminates ==
    /\ (pc \in {"kruskal_loop", "prim_loop", "dfs_loop"}) ~> LoopExhausted
    /\ [][(pc \in {"kruskal_loop", "prim_loop", "dfs_loop"} /\ pc' = pc) =>
              LoopVariant' < LoopVariant]_vars
    /\ [][(pc = "start" /\ pc' = "kruskal_loop") =>
              /\ Len(walls') = Len(all_edges)
              /\ Elems(walls') = Elems(all_edges)]_vars
    /\ [](pc = "kruskal_loop" => Cardinality(Elems(walls)) = Len(walls))
    /\ [][(pc = "kruskal_loop" /\ walls # <<>>) => walls' = Front(walls)]_vars
    /\ [](pc = "dfs_loop" => \A i \in DOMAIN fringe : fringe[i][2] # <<>>)
    /\ [][pc = "dfs_loop" => pc' # "raised"]_vars

\* The DFS loop has run to its end on a non-square grid, every frame popped
\* empty and dropped.
C18_Witness ==
    /\ method = "dfs"
    /\ LoopExhausted
    /\ width = 3
    /\ height = 4
    /\ Cardinality(OpenPairs(grid)) = 11

---------------------------------------------------------------------------
\* Claims about Kruskal's sets.

\* The indices of the non-empty sets.
NonEmptySets == {i \in DOMAIN set_cells : set_cells[i] # {}}

\* The cells reachable from p through open walls of g, within n steps.
Component(g, p, n) ==
    ForRange(LAMBDA S, k : Step(g, S), {p}, 1, n)

\* The non-empty sets partition the cells, cell_set and set_cells agree, and
\* each non-empty set is one connected component of the open-wall graph.
UnionFindInvariant ==
    /\ UNION {set_cells[i] : i \in NonEmptySets} = Cells(width, height)
    /\ \A i, j \in NonEmptySets : i # j => set_cells[i] \cap set_cells[j] = {}
    /\ \A q \in Cells(width, height), i \in DOMAIN set_cells :
           cell_set[q] = i <=> q \in set_cells[i]
    /\ \A i \in NonEmptySets :
           LET S == set_cells[i]
               member == CHOOSE q \in S : TRUE
           IN  /\ Step(grid, S) = S
               /\ Component(grid, member, Cardinality(S)) = S

\* An iteration that opens a wall: the popped edge joins two different sets,
\* the lower index takes their union, the other is emptied, the rest stay.
MergeEffect ==
    LET position == Last(walls)[1]
        neighbor == Add(position, DirVec(Last(walls)[2]))
        a == cell_set[position]
        b == cell_set[neighbor]
        lo == IF a < b THEN a ELSE b
        hi == IF a < b THEN b ELSE a
    IN  /\ a # b
        /\ set_cells'[lo] = set_cells[a] \cup set_cells[b]
        /\ set_cells'[hi] = {}
        /\ \A i \in DOMAIN set_cells : i \notin {a, b} => set_cells'[i] = set_cells[i]

\* C19: Kruskal's union-find invariant.  At every iteration of the edge loop
\* the non-empty sets partition the cells, cell_set[p] = i iff p is in
\* set_cells[i], and each non-empty set is exactly one connected component
\* of the open walls; a wall is opened only between cells of different
\* sets, and the merge keeps the lower index and empties the other; when the
\* loop has ended every cell is in set 0 and the assertion on set 1 holds.
C19_KruskalUnionFind ==
    /\ [](pc = "kruskal_loop" => UnionFindInvariant)
    /\ [][(pc = "kruskal_loop" /\ walls # <<>> /\ grid' # grid) => MergeEffect]_vars
    /\ [][(pc = "kruskal_loop" /\ walls # <<>> /\ grid' = grid) =>
              set_cells' = set_cells /\ cell_set' = cell_set]_vars
    /\ [](KruskalLoopEnded =>
              /\ \A q \in Cells(width, height) : cell_set[q] = 0
              /\ set_cells[0] = Cells(width, height)
              /\ set_cells[1] = {})
    /\ [](err # "AssertionError")

\* The loop is running and a merge has emptied a set other than set 0's
\* partner: two sets of several cells exist, one of them not set 0.
C19_Witness ==
    /\ method = "kruskal"
    /\ pc = "kruskal_loop"
    /\ walls # <<>>
    /\ Cardinality(set_cells[0]) >= 2
    /\ \E i \in NonEmptySets : i > 0 /\ Cardinality(set_cells[i]) >= 3
    /\ width # height

=============================================================================
